---- MODULE Spec2Model ----
(***************************************************************************)
(* Model of the test daemon of meteor-mocha's server.js (the implementation *)
(* with heartbeats, bail, JSON reporter and graceful shutdown):             *)
(* the /test/run request handler, runDaemonTests, its completion callback,  *)
(* the close handler of a run's response, the heartbeat timer, the output   *)
(* interception and the shutdown handler.                                   *)
(*                                                                          *)
(* Strings are sequences of one-character strings.  Function values         *)
(* (console.log, process.stdout.write, ...) are sequences of layers over    *)
(* the native function: 0 is a Function.prototype.bind layer, c > 0 is the  *)
(* interceptor installed by the run of connection c; <<>> is the native     *)
(* function itself.                                                         *)
(***************************************************************************)
EXTENDS Integers, Sequences, FiniteSets, TLC

\* ---------------------------------------------------------------- bounds
\* number of /test/run requests received over the daemon's life
MaxRequests == 2
\* number of writes the tests make to stdout/stderr/console over all runs
MaxWrites == 1
\* number of heartbeat timer ticks over all runs
MaxBeats == 1

\* length of the file paths and of the patterns handed to the path matcher
MaxPathLen == 4
MaxPatternLen == 3

\* number of suites below the root in the registries handed to buildFileMap
MaxNodes == 3
\* length of the titles handed to escapeRegex on their own
MaxTitleLen == 2
\* messages, browser output lines and server reporter lines of a process
\* started without TEST_DAEMON
MaxMessages == 2
MaxLines == 2
MaxServerLines == 1

Conns == 1..MaxRequests

\* ------------------------------------------------------- suite registry
\* mochaInstance.suite: root 0 (no title, no file) with suites A (x/a),
\* B. (x/b) and below B. the untagged suite C.
NoFile == <<>>

Suites ==
  [n \in 0..3 |->
     CASE n = 0 -> [title |-> <<>>, file |-> NoFile, suites |-> <<1, 2>>, parent |-> 0]
       [] n = 1 -> [title |-> <<"A">>, file |-> <<"x", "/", "a">>, suites |-> <<>>, parent |-> 0]
       [] n = 2 -> [title |-> <<"B", ".">>, file |-> <<"x", "/", "b">>, suites |-> <<3>>, parent |-> 0]
       [] n = 3 -> [title |-> <<"C">>, file |-> NoFile, suites |-> <<>>, parent |-> 2]]

\* Suite.prototype.fullTitle(): the titles from the root down, joined by ' '
RECURSIVE fullTitle(_)
fullTitle(n) ==
  IF n = 0 THEN <<>>
  ELSE LET p == fullTitle(Suites[n].parent)
       IN  IF p = <<>> THEN Suites[n].title ELSE p \o <<" ">> \o Suites[n].title

\* ------------------------------------------------------ string helpers
RECURSIVE StripLeading(_, _)
StripLeading(s, ch) ==
  IF s # <<>> /\ Head(s) = ch THEN StripLeading(Tail(s), ch) ELSE s

RECURSIVE StripTrailing(_, _)
StripTrailing(s, ch) ==
  IF s # <<>> /\ s[Len(s)] = ch THEN StripTrailing(SubSeq(s, 1, Len(s) - 1), ch) ELSE s

\* String.prototype.split('/'): always at least one (possibly empty) segment
RECURSIVE SplitFrom(_, _, _)
SplitFrom(s, cur, acc) ==
  IF s = <<>> THEN Append(acc, cur)
  ELSE IF Head(s) = "/" THEN SplitFrom(Tail(s), <<>>, Append(acc, cur))
  ELSE SplitFrom(Tail(s), Append(cur, Head(s)), acc)

Split(s) == SplitFrom(s, <<>>, <<>>)

\* normalizePath: falsy input returned as is, leading slashes removed,
\* backslashes turned into '/'
normalizePath(filepath) ==
  IF filepath = <<>> THEN filepath
  ELSE LET stripped == StripLeading(filepath, "/")
       IN  [i \in 1..Len(stripped) |-> IF stripped[i] = "\\" THEN "/" ELSE stripped[i]]

\* (variant: the pattern is only compared with the first segments)
pathMatchesPattern_Anchored(filePath, pattern) ==
  LET fileSegments    == Split(StripTrailing(filePath, "/"))
      patternSegments == Split(StripTrailing(pattern, "/"))
  IN  /\ Len(patternSegments) <= Len(fileSegments)
      /\ \A i \in 1..Len(patternSegments) : fileSegments[i] = patternSegments[i]

\* pathMatchesPattern: the pattern's segments occur as a contiguous run of
\* whole segments of the file
pathMatchesPattern(filePath, pattern) ==
  LET fileSegments    == Split(StripTrailing(filePath, "/"))
      patternSegments == Split(StripTrailing(pattern, "/"))
  IN  /\ Len(patternSegments) <= Len(fileSegments)
      /\ \E start \in 0..(Len(fileSegments) - Len(patternSegments)) :
           \A i \in 1..Len(patternSegments) :
             fileSegments[start + i] = patternSegments[i]

RegexMeta == {".", "*", "+", "?", "^", "$", "{", "}", "(", ")", "|", "[", "]", "\\"}

\* (variant: the backslash itself is left alone)
RECURSIVE escapeRegex_KeepsBackslash(_)
escapeRegex_KeepsBackslash(str) ==
  IF str = <<>> THEN <<>>
  ELSE (IF Head(str) \in RegexMeta \ {"\\"} THEN <<"\\", Head(str)>> ELSE <<Head(str)>>)
       \o escapeRegex_KeepsBackslash(Tail(str))

\* escapeRegex: str.replace(/[.*+?^${}()|[\]\\]/g, '\\$&')
RECURSIVE escapeRegex(_)
escapeRegex(str) ==
  IF str = <<>> THEN <<>>
  ELSE (IF Head(str) \in RegexMeta THEN <<"\\", Head(str)>> ELSE <<Head(str)>>)
       \o escapeRegex(Tail(str))

\* Suite.prototype.fullTitle() in a registry: the titles of the suites from
\* below the root down to the suite, joined by ' '
RECURSIVE titlePath(_, _)
titlePath(tree, n) ==
  IF n = 0 THEN <<>> ELSE Append(titlePath(tree, tree[n].parent), tree[n].title)

RECURSIVE JoinSpace(_)
JoinSpace(ss) ==
  IF ss = <<>> THEN <<>>
  ELSE IF Len(ss) = 1 THEN ss[1]
  ELSE ss[1] \o <<" ">> \o JoinSpace(Tail(ss))

fullTitleIn(tree, n) == JoinSpace(titlePath(tree, n))

\* findSuitesForFile: pre-order walk of a registry, the file inherited from
\* the parent
RECURSIVE findSuitesIn(_, _, _, _)
RECURSIVE findSuitesEachIn(_, _, _, _)
findSuitesIn(tree, n, parentFile, normalizedPattern) ==
  LET file == IF tree[n].file # NoFile THEN tree[n].file ELSE parentFile
      own  == IF /\ file # NoFile
                 /\ pathMatchesPattern(normalizePath(file), normalizedPattern)
                 /\ tree[n].title # <<>>
              THEN <<escapeRegex(fullTitleIn(tree, n))>>
              ELSE <<>>
  IN  own \o findSuitesEachIn(tree, tree[n].suites, file, normalizedPattern)

findSuitesEachIn(tree, children, file, normalizedPattern) ==
  IF children = <<>> THEN <<>>
  ELSE findSuitesIn(tree, Head(children), file, normalizedPattern)
       \o findSuitesEachIn(tree, Tail(children), file, normalizedPattern)

\* the walk over the daemon's registry
findSuites(n, parentFile, normalizedPattern) ==
  findSuitesIn(Suites, n, parentFile, normalizedPattern)

findSuitesEach(children, file, normalizedPattern) ==
  findSuitesEachIn(Suites, children, file, normalizedPattern)

findSuitesForFile(filePattern) == findSuites(0, NoFile, normalizePath(filePattern))

RECURSIVE JoinBar(_)
JoinBar(ss) ==
  IF ss = <<>> THEN <<>>
  ELSE IF Len(ss) = 1 THEN ss[1]
  ELSE ss[1] \o <<"|">> \o JoinBar(Tail(ss))

\* ------------------------------------------------------------ requests
\* the query strings the model sends to /test/run: no filter; a file that
\* matches, a name pattern and every flag set; a file that matches nothing;
\* a file with the default reporter and the snapshot flag
Requests ==
  { [grep |-> <<>>, file |-> <<>>, invert |-> FALSE, reporter |-> "spec",
     snapshotUpdate |-> FALSE, bail |-> FALSE],
    [grep |-> <<"a", "|", "b">>, file |-> <<"/", "x", "/", "b">>, invert |-> TRUE,
     reporter |-> "json", snapshotUpdate |-> TRUE, bail |-> TRUE],
    [grep |-> <<>>, file |-> <<"z", "/", "a">>, invert |-> FALSE, reporter |-> "spec",
     snapshotUpdate |-> FALSE, bail |-> FALSE],
    [grep |-> <<>>, file |-> <<"a">>, invert |-> FALSE, reporter |-> "spec",
     snapshotUpdate |-> TRUE, bail |-> FALSE] }

\* what the runner hands to its completion callback: a count, or no number
Results ==
  { [isNum |-> TRUE, n |-> 0], [isNum |-> TRUE, n |-> 2], [isNum |-> FALSE, n |-> 0] }

\* values of process.env.SNAPSHOT_UPDATE before the daemon's first run
EnvValues == {"unset", "0"}

Signals == {"SIGTERM", "SIGINT"}
Streams == {"stdout", "stderr", "log", "error"}

\* the newlines at the end of what the model hands to each output function:
\* a line to process.stdout.write, a block ending in an empty line to
\* process.stderr.write, a plain line to console.log, a line with its own
\* newline to console.error
TrailingNewlines(stream) ==
  CASE stream = "stdout" -> 1
    [] stream = "stderr" -> 2
    [] stream = "log"    -> 0
    [] stream = "error"  -> 1

VARIABLES
  daemonTestsRunning,   \* let daemonTestsRunning
  clientDisconnected,   \* let clientDisconnected
  shuttingDown,         \* let shuttingDown
  activeConnections,    \* const activeConnections = new Set()
  env,                  \* process.env.SNAPSHOT_UPDATE ("unset" when deleted)
  consoleLog,           \* console.log
  consoleError,         \* console.error
  stdoutWrite,          \* process.stdout.write
  stderrWrite,          \* process.stderr.write
  mocha,                \* mochaInstance: options, reset and run counters
  conns,                \* the response object of each request
  runs,                 \* the closure of each accepted run
  nreq,                 \* requests received so far
  wseq,                 \* writes made so far (numbers the output)
  beats,                \* heartbeat ticks so far
  last,                 \* the response the last step let go of, if any
  probe,                \* a call of the path matcher: its arguments and result
  proc                  \* the process started without TEST_DAEMON

vars == <<daemonTestsRunning, clientDisconnected, shuttingDown, activeConnections,
          env, consoleLog, consoleError, stdoutWrite, stderrWrite, mocha, conns,
          runs, nreq, wseq, beats, last, probe, proc>>

\* an event of a response: its type, a number, its text and the number of
\* newlines at the end of the text
Ev(type, n, tag) == [type |-> type, n |-> n, tag |-> tag, nl |-> 0]

NoResult == [isNum |-> TRUE, n |-> 0]

\* the request with no parameter
NoQuery ==
  [grep |-> <<>>, file |-> <<>>, invert |-> FALSE, reporter |-> "spec",
   snapshotUpdate |-> FALSE, bail |-> FALSE]

\* A response: the events written to it, whether res.end() was called,
\* whether a 'close' handler is registered and whether 'close' was emitted.
\* History: the query it answers, whether a write was made after 'close'
\* or after end(), what the daemon's state was when the request arrived and
\* which way the handler went.
NoConn ==
  [events |-> <<>>, opened |-> FALSE, ended |-> FALSE, hasClose |-> FALSE,
   closed |-> FALSE, lateWrite |-> FALSE, endWrite |-> FALSE, query |-> NoQuery,
   sawRunning |-> FALSE, sawShutdown |-> FALSE, outcome |-> "none"]

NoRun ==
  [phase |-> "none", useJsonReporter |-> FALSE, jsonBuffer |-> <<>>,
   previousSnapshotUpdate |-> "unset", originalLog |-> <<>>, originalError |-> <<>>,
   originalStdoutWrite |-> <<>>, originalStderrWrite |-> <<>>, heartbeat |-> FALSE,
   failureCount |-> NoResult, cleanups |-> 0, cleanupFailed |-> FALSE,
   ownClosed |-> FALSE, shutDuring |-> FALSE, flagAtEnd |-> FALSE]

\* no call of the path matcher
NoProbe == [file |-> <<>>, pattern |-> <<>>, state |-> "none", result |-> FALSE]

\* nothing was let go of
\* the process without TEST_DAEMON before start(): the module's variables
\* (serverTestsDone .. serverFailures), the options start() reads, the server
\* runner and its callback, the browser runs in progress, the promise of
\* handleCoverage, process.exit, what console.log printed and what was
\* appended to the client output file; arrived lists the lines handed to
\* clientLogBuffer and clientReported tells that exitIfDone got a client
\* result
NoProc ==
  [state |-> "none",
   runnerOptions |-> [runServer |-> FALSE, runClient |-> FALSE, browserDriver |-> FALSE,
                      testWatch |-> FALSE, runParallel |-> FALSE],
   clientOutput |-> FALSE, clientReporter |-> "spec",
   serverTestsDone |-> FALSE, clientTestsRunning |-> FALSE, clientLines |-> <<>>,
   callCount |-> 0, clientFailures |-> 0, serverFailures |-> 0,
   serverRunning |-> FALSE, cb |-> FALSE, browsers |-> 0,
   coverage |-> "none", exit |-> -1,
   console |-> <<>>, file |-> <<>>,
   arrived |-> <<>>, clientReported |-> FALSE,
   msgs |-> 0, lines |-> 0, serverLines |-> 0]

NoObs == [id |-> 0, conn |-> NoConn, run |-> NoRun]

Init ==
  /\ daemonTestsRunning = FALSE
  /\ clientDisconnected = FALSE
  /\ shuttingDown = FALSE
  /\ activeConnections = {}
  /\ env \in EnvValues
  /\ consoleLog = <<>>
  /\ consoleError = <<>>
  /\ stdoutWrite = <<>>
  /\ stderrWrite = <<>>
  /\ mocha = [grep |-> <<>>, invert |-> FALSE, bail |-> FALSE, color |-> TRUE,
              reporter |-> "spec", resets |-> 0, runs |-> 0, dirty |-> FALSE]
  /\ conns = [c \in Conns |-> NoConn]
  /\ runs = [c \in Conns |-> NoRun]
  /\ nreq = 0
  /\ wseq = 0
  /\ beats = 0
  /\ last = NoObs
  /\ probe = NoProbe
  /\ proc = NoProc

\* ------------------------------------------------- writes and the relay
\* (variant: a write to an ended response still goes out)
resWrite_AfterEnd(cs, c, ev) ==
  [cs EXCEPT ![c] =
     [@ EXCEPT !.events = Append(@, ev), !.lateWrite = @ \/ cs[c].closed,
               !.endWrite = @ \/ cs[c].ended]]

\* res.write(ev): nothing reaches a response that has been ended
resWrite(cs, c, ev) ==
  [cs EXCEPT ![c] =
     IF @.ended THEN [@ EXCEPT !.endWrite = TRUE]
     ELSE [@ EXCEPT !.events = Append(@, ev), !.lateWrite = @ \/ cs[c].closed]]

\* res.end()
resEnd(cs, c) == [cs EXCEPT ![c].ended = TRUE]

\* a world is the pair of responses and closures that a call may change
World(cs, rs) == [cs |-> cs, rs |-> rs]

sendLog(w, c, ev) ==
  World(resWrite(w.cs, c, [Ev("log", ev.n, ev.tag) EXCEPT !.nl = ev.nl]), w.rs)

sendError(w, c, ev) ==
  World(resWrite(w.cs, c, [Ev("error", ev.n, ev.tag) EXCEPT !.nl = ev.nl]), w.rs)

\* (variant: every trailing newline is removed)
stripNewline_All(ev) == [ev EXCEPT !.nl = 0]

\* str.replace(/\n$/, '')
stripNewline(ev) == [ev EXCEPT !.nl = IF @ > 0 THEN @ - 1 ELSE @]

\* (variant: the JSON reporter's output is streamed like any other)
stdoutInterceptor_AlwaysStreams(w, c, ev) == sendLog(w, c, stripNewline(ev))

\* the process.stdout.write installed by run c: buffer for the JSON
\* reporter, else one 'log' event; then the original write
stdoutInterceptor(w, c, ev) ==
  IF w.rs[c].useJsonReporter
  THEN World(w.cs, [w.rs EXCEPT ![c].jsonBuffer = Append(@, ev.n)])
  ELSE sendLog(w, c, stripNewline(ev))

\* the process.stderr.write installed by run c
stderrInterceptor(w, c, ev) == sendError(w, c, stripNewline(ev))

\* a call of a process.stdout.write value f
RECURSIVE CallStdout(_, _, _)
CallStdout(f, w, ev) ==
  IF f = <<>> THEN w
  ELSE IF Head(f) = 0 THEN CallStdout(Tail(f), w, ev)
  ELSE CallStdout(Tail(f), stdoutInterceptor(w, Head(f), ev), ev)

\* a call of a process.stderr.write value f
RECURSIVE CallStderr(_, _, _)
CallStderr(f, w, ev) ==
  IF f = <<>> THEN w
  ELSE IF Head(f) = 0 THEN CallStderr(Tail(f), w, ev)
  ELSE CallStderr(Tail(f), stderrInterceptor(w, Head(f), ev), ev)

\* a call of a console.log value f while process.stdout.write is so: a
\* run's console.log builds the line and only calls originalLog; the native
\* console.log writes the line and a newline to process.stdout
RECURSIVE CallConsoleLog(_, _, _, _)
CallConsoleLog(f, so, w, ev) ==
  IF f = <<>> THEN CallStdout(so, w, [ev EXCEPT !.nl = @ + 1])
  ELSE CallConsoleLog(Tail(f), so, w, ev)

\* a call of a console.error value f while process.stderr.write is se
RECURSIVE CallConsoleError(_, _, _, _)
CallConsoleError(f, se, w, ev) ==
  IF f = <<>> THEN CallStderr(se, w, [ev EXCEPT !.nl = @ + 1])
  ELSE CallConsoleError(Tail(f), se, w, ev)

\* a text handed to an output function, with no newline at its end
Chunk(n, tag) == [n |-> n, tag |-> tag, nl |-> 0]

\* a run is in progress from its acceptance until its completion callback
\* has returned
InProgress(c) == runs[c].phase \in {"running", "cleanup"}

\* What a step lets go of.  A response whose handler returned without
\* accepting it is referred to by nothing.  When the completion callback of
\* a run returns, its closure is referred to by nothing, and what was
\* written to its response has left the process: the response stays only as
\* the target of its 'close' event, and of any write still made to it.
Rejected(cn) == cn.outcome \in {"nofile", "busy", "shutdown"}

Shell(cn) ==
  [NoConn EXCEPT !.opened = TRUE, !.outcome = "accepted", !.hasClose = TRUE,
                 !.ended = cn.ended]

Over == [NoRun EXCEPT !.phase = "over"]

\* the end of a step: the responses and closures become those of w; last
\* shows, for this one step, the response and closure the step let go of
Commit(w) ==
  LET gone == {c \in Conns : Rejected(w.cs[c]) \/ w.rs[c].phase = "final"}
  IN  /\ conns' = [c \in Conns |->
                     IF \/ Rejected(w.cs[c])
                        \/ w.cs[c].closed /\ w.rs[c].phase \in {"final", "over"}
                     THEN NoConn
                     ELSE IF w.rs[c].phase = "final" THEN Shell(w.cs[c])
                     ELSE w.cs[c]]
      /\ runs'  = [c \in Conns |->
                     IF w.cs[c].closed /\ w.rs[c].phase \in {"final", "over"} THEN NoRun
                     ELSE IF w.rs[c].phase = "final" THEN Over
                     ELSE w.rs[c]]
      /\ last'  = IF gone = {} THEN NoObs
                  ELSE LET c == CHOOSE x \in gone : TRUE
                       IN  [id |-> c, conn |-> w.cs[c], run |-> w.rs[c]]
      /\ UNCHANGED <<probe, proc>>

\* --------------------------------------------------- GET /test/run
\* (variant: the running guard is missing)
AlreadyRunning_NoGuard == FALSE

\* if (daemonTestsRunning)
AlreadyRunning == daemonTestsRunning

\* (variant: the shutdown guard is missing)
RejectShutdown_NoGuard == FALSE

\* if (shuttingDown), in runDaemonTests
RejectShutdown == shuttingDown

\* the grep handed to runDaemonTests
effectiveGrep(rq) ==
  IF rq.file = <<>> THEN rq.grep
  ELSE LET fileGrep == <<"^", "(">> \o JoinBar(findSuitesForFile(rq.file)) \o <<")">>
       IN  IF rq.grep # <<>>
           THEN <<"(", "?", "=">> \o fileGrep \o <<")", "(", "?", "=", ".", "*">>
                \o rq.grep \o <<")">>
           ELSE fileGrep

\* res.writeHead(200, ...): the response of request c exists
Opened(c, rq) ==
  [conns EXCEPT ![c] =
     [NoConn EXCEPT !.opened = TRUE,
                    !.query = rq,
                    !.sawRunning = \E d \in Conns : InProgress(d),
                    !.sawShutdown = shuttingDown]]

\* (variant: the fileSuites.length === 0 return is missing)
Resolved_NoEarlyReturn(rq) == TRUE

\* no file pattern, or some suite found for it: the handler goes on
Resolved(rq) == rq.file = <<>> \/ Len(findSuitesForFile(rq.file)) # 0

\* the file pattern matches no suite: error, done with one failure, end
NoTestsFound(c, rq) ==
  /\ ~Resolved(rq)
  /\ Commit(World(
       [resEnd(resWrite(resWrite(Opened(c, rq), c, Ev("error", 0, "no tests found")),
                        c, Ev("done", 1, "number")), c)
          EXCEPT ![c].outcome = "nofile"], runs))
  /\ UNCHANGED <<daemonTestsRunning, clientDisconnected, shuttingDown,
                 activeConnections, env, consoleLog, consoleError, stdoutWrite,
                 stderrWrite, mocha>>

Started(c, rq) == resWrite(Opened(c, rq), c, Ev("start", 0, ""))

\* runDaemonTests, first return
RejectRunning(c, rq) ==
  /\ Resolved(rq)
  /\ AlreadyRunning
  /\ Commit(World(
       [resEnd(resWrite(Started(c, rq), c, Ev("error", 0, "already running")), c)
          EXCEPT ![c].outcome = "busy"], runs))
  /\ UNCHANGED <<daemonTestsRunning, clientDisconnected, shuttingDown,
                 activeConnections, env, consoleLog, consoleError, stdoutWrite,
                 stderrWrite, mocha>>

\* runDaemonTests, second return
RejectShuttingDown(c, rq) ==
  /\ Resolved(rq)
  /\ ~AlreadyRunning
  /\ RejectShutdown
  /\ Commit(World(
       [resEnd(resWrite(Started(c, rq), c, Ev("shutdown", 0, "shutting down")), c)
          EXCEPT ![c].outcome = "shutdown"], runs))
  /\ UNCHANGED <<daemonTestsRunning, clientDisconnected, shuttingDown,
                 activeConnections, env, consoleLog, consoleError, stdoutWrite,
                 stderrWrite, mocha>>

\* printHeader('SERVER'): three console.log calls
printHeader(f, so, w) ==
  CallConsoleLog(f, so,
    CallConsoleLog(f, so,
      CallConsoleLog(f, so, w, Chunk(0, "header 1")), Chunk(0, "header 2")),
    Chunk(0, "header 3"))

\* runDaemonTests from daemonTestsRunning = true to mochaInstance.run(...)
\* (variant: bail is switched on when asked for and otherwise left alone)
bailOption_Sticky(rq) == rq.bail \/ mocha.bail

\* mochaInstance.bail(true) when the request asks for it, else bail(false)
bailOption(rq) == rq.bail

Accept(c, rq) ==
  /\ Resolved(rq)
  /\ ~AlreadyRunning
  /\ ~RejectShutdown
  /\ daemonTestsRunning' = TRUE
  /\ clientDisconnected' = FALSE
  /\ activeConnections' = activeConnections \cup {c}
  /\ env' = IF rq.snapshotUpdate THEN "1" ELSE env
  /\ LET useJsonReporter == rq.reporter = "json"
         closure ==
           [NoRun EXCEPT !.phase = "running",
                         !.useJsonReporter = useJsonReporter,
                         !.previousSnapshotUpdate = env,
                         !.originalLog = consoleLog,
                         !.originalError = consoleError,
                         !.originalStdoutWrite = <<0>> \o stdoutWrite,
                         !.originalStderrWrite = <<0>> \o stderrWrite,
                         !.heartbeat = TRUE]
         w0 == World([Started(c, rq) EXCEPT ![c].hasClose = TRUE, ![c].outcome = "accepted"],
                     [runs EXCEPT ![c] = closure])
         w1 == IF useJsonReporter THEN w0
               ELSE printHeader(<<c>> \o closure.originalLog,
                                <<c>> \o closure.originalStdoutWrite, w0)
     IN  /\ mocha' = [grep |-> effectiveGrep(rq), invert |-> rq.invert,
                      bail |-> bailOption(rq), color |-> ~useJsonReporter,
                      reporter |-> IF useJsonReporter THEN "json" ELSE "spec",
                      resets |-> mocha.resets + 1, runs |-> mocha.runs + 1,
                      dirty |-> FALSE]
         /\ stdoutWrite' = <<c>> \o closure.originalStdoutWrite
         /\ stderrWrite' = <<c>> \o closure.originalStderrWrite
         /\ consoleLog' = <<c>> \o closure.originalLog
         /\ consoleError' = <<c>> \o closure.originalError
         /\ Commit(w1)
  /\ UNCHANGED shuttingDown

\* the steps of an accepted run that can throw before the runner has
\* delivered a result: mochaInstance.suite.reset(), mochaInstance.reporter()
\* and mochaInstance.run()
FailPoints == {"reset", "reporter", "run"}

\* runDaemonTests when the step named by at throws: nothing in runDaemonTests
\* catches, so what was done up to that step stays done and the rest of the
\* function is skipped
AcceptThrows(c, rq, at) ==
  /\ Resolved(rq)
  /\ ~AlreadyRunning
  /\ ~RejectShutdown
  /\ daemonTestsRunning' = TRUE
  /\ clientDisconnected' = FALSE
  /\ activeConnections' = activeConnections \cup {c}
  /\ env' = IF rq.snapshotUpdate THEN "1" ELSE env
  /\ LET useJsonReporter == rq.reporter = "json"
         installed == at = "run"
         closure ==
           [NoRun EXCEPT !.phase = "failed",
                         !.useJsonReporter = useJsonReporter,
                         !.previousSnapshotUpdate = env,
                         !.originalLog = IF installed THEN consoleLog ELSE <<>>,
                         !.originalError = IF installed THEN consoleError ELSE <<>>,
                         !.originalStdoutWrite =
                            IF installed THEN <<0>> \o stdoutWrite ELSE <<>>,
                         !.originalStderrWrite =
                            IF installed THEN <<0>> \o stderrWrite ELSE <<>>,
                         !.heartbeat = installed]
         w0 == World([Started(c, rq) EXCEPT ![c].hasClose = TRUE, ![c].outcome = "accepted"],
                     [runs EXCEPT ![c] = closure])
         w1 == IF useJsonReporter \/ ~installed THEN w0
               ELSE printHeader(<<c>> \o closure.originalLog,
                                <<c>> \o closure.originalStdoutWrite, w0)
     IN  /\ mocha' =
              CASE at = "reset" -> mocha
                [] at = "reporter" ->
                     [mocha EXCEPT !.grep = effectiveGrep(rq), !.invert = rq.invert,
                                   !.bail = bailOption(rq), !.color = ~useJsonReporter,
                                   !.resets = @ + 1, !.dirty = FALSE]
                [] at = "run" ->
                     [grep |-> effectiveGrep(rq), invert |-> rq.invert,
                      bail |-> bailOption(rq), color |-> ~useJsonReporter,
                      reporter |-> IF useJsonReporter THEN "json" ELSE "spec",
                      resets |-> mocha.resets + 1, runs |-> mocha.runs + 1,
                      dirty |-> FALSE]
         /\ stdoutWrite' = IF installed THEN <<c>> \o closure.originalStdoutWrite
                           ELSE stdoutWrite
         /\ stderrWrite' = IF installed THEN <<c>> \o closure.originalStderrWrite
                           ELSE stderrWrite
         /\ consoleLog' = IF installed THEN <<c>> \o closure.originalLog ELSE consoleLog
         /\ consoleError' = IF installed THEN <<c>> \o closure.originalError
                            ELSE consoleError
         /\ Commit(w1)
  /\ UNCHANGED shuttingDown

\* the /test/run handler
Request(rq) ==
  /\ nreq < MaxRequests
  /\ nreq' = nreq + 1
  /\ \/ NoTestsFound(nreq + 1, rq)
     \/ RejectRunning(nreq + 1, rq)
     \/ RejectShuttingDown(nreq + 1, rq)
     \/ Accept(nreq + 1, rq)
     \/ \E at \in FailPoints : AcceptThrows(nreq + 1, rq, at)
  /\ UNCHANGED <<wseq, beats>>

\* ------------------------------------------------ res.on('close', ...)
\* the 'close' event of the response of an accepted request: the peer went
\* away, or the response was ended and its socket closed
CloseEvent(c) ==
  /\ conns[c].hasClose
  /\ ~conns[c].closed
  /\ LET cs == [conns EXCEPT ![c].closed = TRUE]
         rs == [runs EXCEPT ![c].ownClosed = @ \/ InProgress(c)]
     IN  Commit(IF daemonTestsRunning
                THEN CallConsoleLog(consoleLog, stdoutWrite, World(cs, rs),
                                    Chunk(0, "client disconnected"))
                ELSE World(cs, rs))
  /\ clientDisconnected' = (clientDisconnected \/ daemonTestsRunning)
  /\ UNCHANGED <<daemonTestsRunning, shuttingDown, activeConnections, env,
                 consoleLog, consoleError, stdoutWrite, stderrWrite, mocha, nreq,
                 wseq, beats>>

\* ---------------------------------------------- SIGTERM / SIGINT
RECURSIVE NotifyAll(_, _, _)
NotifyAll(cs, todo, signal) ==
  IF todo = {} THEN cs
  ELSE LET c == CHOOSE x \in todo : \A y \in todo : x <= y
       IN  NotifyAll(resEnd(resWrite(cs, c, Ev("shutdown", 0, signal)), c),
                     todo \ {c}, signal)

\* (variant: the handler has no shuttingDown test)
AlreadyShuttingDown_Never == FALSE

\* if (shuttingDown) return
AlreadyShuttingDown == shuttingDown

\* (variant: the registry is left as it is)
clearConnections_Keeps == activeConnections

\* activeConnections.clear()
clearConnections == {}

shutdown(signal) ==
  IF AlreadyShuttingDown
  THEN /\ Commit(World(conns, runs))
       /\ UNCHANGED <<daemonTestsRunning, clientDisconnected, shuttingDown,
                      activeConnections, env, consoleLog, consoleError,
                      stdoutWrite, stderrWrite, mocha, nreq, wseq, beats>>
  ELSE /\ shuttingDown' = TRUE
       /\ LET rs == [c \in Conns |->
                       [runs[c] EXCEPT !.shutDuring = @ \/ InProgress(c)]]
              w  == CallConsoleLog(consoleLog, stdoutWrite, World(conns, rs),
                                   Chunk(0, "received signal"))
          IN  Commit(World(NotifyAll(w.cs, activeConnections, signal), w.rs))
       /\ activeConnections' = clearConnections
       /\ UNCHANGED <<daemonTestsRunning, clientDisconnected, env, consoleLog,
                      consoleError, stdoutWrite, stderrWrite, mocha, nreq, wseq,
                      beats>>

\* ----------------------------------------------- setInterval(..., 10000)
\* one tick of the heartbeat of run c; the write can throw only when the
\* peer is gone or the response was ended
Heartbeat(c, throws) ==
  /\ runs[c].heartbeat
  /\ beats < MaxBeats
  /\ throws => (conns[c].closed \/ conns[c].ended)
  /\ beats' = beats + 1
  /\ Commit(IF throws
            THEN World(conns, [runs EXCEPT ![c].heartbeat = FALSE])
            ELSE World(resWrite(conns, c, Ev("heartbeat", 0, "")), runs))
  /\ UNCHANGED <<daemonTestsRunning, clientDisconnected, shuttingDown,
                 activeConnections, env, consoleLog, consoleError, stdoutWrite,
                 stderrWrite, mocha, nreq, wseq>>

\* ------------------------------------------------ output of the process
\* one write to process.stdout / process.stderr or one console.log /
\* console.error call, by the tests or by anything else in the process.
\* A write that reaches only the native functions changes nothing here.
Intercepted(f) == \E i \in 1..Len(f) : f[i] > 0

Output(stream) ==
  /\ wseq < MaxWrites
  /\ \/ Intercepted(stdoutWrite) \/ Intercepted(stderrWrite)
     \/ Intercepted(consoleLog) \/ Intercepted(consoleError)
  /\ wseq' = wseq + 1
  /\ LET ev == [Chunk(wseq + 1, "out") EXCEPT !.nl = TrailingNewlines(stream)]
         w0 == World(conns, runs)
     IN  Commit(CASE stream = "stdout" -> CallStdout(stdoutWrite, w0, ev)
                  [] stream = "stderr" -> CallStderr(stderrWrite, w0, ev)
                  [] stream = "log"    -> CallConsoleLog(consoleLog, stdoutWrite, w0, ev)
                  [] stream = "error"  -> CallConsoleError(consoleError, stderrWrite, w0, ev))
  /\ UNCHANGED <<daemonTestsRunning, clientDisconnected, shuttingDown,
                 activeConnections, env, consoleLog, consoleError, stdoutWrite,
                 stderrWrite, mocha, nreq, beats>>

\* (variant: the callback does not clear the heartbeat timer)
callback_KeepsHeartbeat(c, failureCount) ==
  /\ runs[c].phase = "running"
  /\ Commit(World(conns, [runs EXCEPT ![c].phase = "cleanup",
                                      ![c].failureCount = failureCount,
                                      ![c].cleanups = @ + 1]))
  /\ mocha' = [mocha EXCEPT !.dirty = TRUE]
  /\ UNCHANGED <<daemonTestsRunning, clientDisconnected, shuttingDown,
                 activeConnections, env, consoleLog, consoleError, stdoutWrite,
                 stderrWrite, nreq, wseq, beats>>

\* ------------------------------- mochaInstance.run(async (failureCount) =>
\* the runner calls back: the heartbeat is cleared and resetAllCollections()
\* is started and awaited
callback(c, failureCount) ==
  /\ runs[c].phase = "running"
  /\ Commit(World(conns, [runs EXCEPT ![c].phase = "cleanup",
                                      ![c].heartbeat = FALSE,
                                      ![c].failureCount = failureCount,
                                      ![c].cleanups = @ + 1]))
  /\ mocha' = [mocha EXCEPT !.dirty = TRUE]
  /\ UNCHANGED <<daemonTestsRunning, clientDisconnected, shuttingDown,
                 activeConnections, env, consoleLog, consoleError, stdoutWrite,
                 stderrWrite, nreq, wseq, beats>>

\* (variant: a run whose peer is gone is dropped without the cleanup)
RunnerComplete_DropsDisconnected(c, failureCount) ==
  IF ~clientDisconnected THEN callback(c, failureCount)
  ELSE /\ runs[c].phase = "running"
       /\ Commit(World(conns, [runs EXCEPT ![c].heartbeat = FALSE]))
       /\ UNCHANGED <<daemonTestsRunning, clientDisconnected, shuttingDown,
                      activeConnections, env, consoleLog, consoleError,
                      stdoutWrite, stderrWrite, mocha, nreq, wseq, beats>>

RunnerComplete(c, failureCount) == callback(c, failureCount)

\* the value the 'done' event carries
DoneEvent(failureCount) ==
  Ev("done", failureCount.n, IF failureCount.isNum THEN "number" ELSE "undefined")

\* (variant: the 'json' event is written after 'done')
Finish_JsonAfterDone(w, c, log, so) ==
  IF clientDisconnected
  THEN CallConsoleLog(log, so, w, Chunk(0, "client already disconnected"))
  ELSE LET cs1 == resWrite(w.cs, c, DoneEvent(w.rs[c].failureCount))
           cs2 == IF w.rs[c].useJsonReporter /\ w.rs[c].jsonBuffer # <<>>
                  THEN resWrite(cs1, c, Ev("json", Len(w.rs[c].jsonBuffer), "buffer"))
                  ELSE cs1
       IN  World(resEnd(cs2, c), w.rs)

\* if (clientDisconnected) ... else ...: the end of the callback
Finish(w, c, log, so) ==
  IF clientDisconnected
  THEN CallConsoleLog(log, so, w, Chunk(0, "client already disconnected"))
  ELSE LET cs1 == IF w.rs[c].useJsonReporter /\ w.rs[c].jsonBuffer # <<>>
                  THEN resWrite(w.cs, c, Ev("json", Len(w.rs[c].jsonBuffer), "buffer"))
                  ELSE w.cs
       IN  World(resEnd(resWrite(cs1, c, DoneEvent(w.rs[c].failureCount)), c), w.rs)

\* (variant: the variable is deleted whatever it was)
restoreSnapshotUpdate_Deletes(previousSnapshotUpdate) == "unset"

\* if (previousSnapshotUpdate !== undefined) process.env.SNAPSHOT_UPDATE =
\* previousSnapshotUpdate; else delete process.env.SNAPSHOT_UPDATE
restoreSnapshotUpdate(previousSnapshotUpdate) ==
  IF previousSnapshotUpdate # "unset" THEN previousSnapshotUpdate ELSE "unset"

\* resetAllCollections() settles (ok: resolved, else rejected) and the rest
\* of the completion callback runs
completion(c, ok) ==
  /\ runs[c].phase = "cleanup"
  /\ stdoutWrite' = runs[c].originalStdoutWrite
  /\ stderrWrite' = runs[c].originalStderrWrite
  /\ consoleLog' = runs[c].originalLog
  /\ consoleError' = runs[c].originalError
  /\ env' = restoreSnapshotUpdate(runs[c].previousSnapshotUpdate)
  /\ daemonTestsRunning' = FALSE
  /\ activeConnections' = activeConnections \ {c}
  /\ LET rs == [runs EXCEPT ![c].phase = "final",
                            ![c].cleanupFailed = ~ok,
                            ![c].flagAtEnd = clientDisconnected]
         w0 == World(conns, rs)
         w1 == IF ok THEN w0
               ELSE CallConsoleError(consoleError, stderrWrite, w0,
                                     Chunk(0, "failed to reset collections"))
     IN  Commit(Finish(w1, c, runs[c].originalLog, runs[c].originalStdoutWrite))
  /\ UNCHANGED <<clientDisconnected, shuttingDown, mocha, nreq, wseq, beats>>

\* (variant: no try/catch around the await: a rejection ends the callback)
CleanupSettle_Uncaught(c, ok) ==
  IF ok THEN completion(c, ok)
  ELSE /\ runs[c].phase = "cleanup"
       /\ Commit(World(conns, [runs EXCEPT ![c].phase = "final",
                                           ![c].cleanupFailed = TRUE,
                                           ![c].flagAtEnd = clientDisconnected]))
       /\ UNCHANGED <<daemonTestsRunning, clientDisconnected, shuttingDown,
                      activeConnections, env, consoleLog, consoleError,
                      stdoutWrite, stderrWrite, mocha, nreq, wseq, beats>>

CleanupSettle(c, ok) == completion(c, ok)

\* ------------------------------------------------------ specification
Next ==
  \/ \E rq \in Requests : Request(rq)
  \/ \E c \in Conns : CloseEvent(c)
  \/ \E signal \in Signals : shutdown(signal)
  \/ \E c \in Conns, throws \in BOOLEAN : Heartbeat(c, throws)
  \/ \E stream \in Streams : Output(stream)
  \/ \E c \in Conns, failureCount \in Results : RunnerComplete(c, failureCount)
  \/ \E c \in Conns, ok \in BOOLEAN : CleanupSettle(c, ok)

Spec == Init /\ [][Next]_vars

\* the runner calls back and the storage cleanup settles
FairSpec ==
  /\ Spec
  /\ WF_vars(\E c \in Conns, failureCount \in Results : RunnerComplete(c, failureCount))
  /\ WF_vars(\E c \in Conns, ok \in BOOLEAN : CleanupSettle(c, ok))

\* ------------------------------------------------- the path matcher
\* the characters of the paths and patterns tried
Alphabet == {"a", "/", "\\"}

Strings(n) == UNION {[1..k -> Alphabet] : k \in 0..n}

\* paths and patterns with letters, tried besides the strings over Alphabet
SamplePatterns == {<<"a", "b", "c">>,
                   <<"a", "b", "c", "/", "d", "e", "f">>}

SampleFiles == {<<"x", "/", "a", "b", "c", "/", "d", "e", "f", "/", "f", "i", "l", "e", ".", "t", "s">>,
                <<"a", "b", "c", "d", "/", "f", "i", "l", "e", ".", "t", "s">>,
                <<"a", "b", "c", "/", "d", "e", "f", "g", "/", "f", "i", "l", "e", ".", "t", "s">>}

\* a call of the matcher as findSuites makes it is set up: a suite's file
\* and the file pattern of the request
Probe(file, pattern) ==
  /\ probe.state = "none"
  /\ probe' = [file |-> file, pattern |-> pattern, state |-> "asked", result |-> FALSE]
  /\ UNCHANGED <<daemonTestsRunning, clientDisconnected, shuttingDown,
                 activeConnections, env, consoleLog, consoleError, stdoutWrite,
                 stderrWrite, mocha, conns, runs, nreq, wseq, beats, last, proc>>

\* pathMatchesPattern(normalizePath(file), normalizePath(filePattern))
Match ==
  /\ probe.state = "asked"
  /\ probe' = [probe EXCEPT
                 !.state = "answered",
                 !.result = pathMatchesPattern(normalizePath(probe.file),
                                               normalizePath(probe.pattern))]
  /\ UNCHANGED <<daemonTestsRunning, clientDisconnected, shuttingDown,
                 activeConnections, env, consoleLog, consoleError, stdoutWrite,
                 stderrWrite, mocha, conns, runs, nreq, wseq, beats, last, proc>>

\* ------------------------------------------------- GET /test/files
\* registries tried: every way to hang the suites 1..MaxNodes below the
\* root 0 (a suite's parent has a smaller number; siblings are in the order
\* of their numbers), every suite with or without a title and untagged or
\* tagged with one of two files
TitleOf(n) == IF n = 2 THEN <<"B", ".">> ELSE <<(<<"A", "B", "C", "D">>)[n]>>

TagFiles == {NoFile, <<"x", "/", "a">>, <<"x", "/", "b">>}

RECURSIVE Ascending(_)
Ascending(S) ==
  IF S = {} THEN <<>>
  ELSE LET m == CHOOSE x \in S : \A y \in S : x <= y
       IN  <<m>> \o Ascending(S \ {m})

TreeOf(parents, files, titled) ==
  [n \in 0..MaxNodes |->
     [title  |-> IF n # 0 /\ titled[n] THEN TitleOf(n) ELSE <<>>,
      file   |-> IF n = 0 THEN NoFile ELSE files[n],
      suites |-> Ascending({m \in 1..MaxNodes : parents[m] = n}),
      parent |-> IF n = 0 THEN 0 ELSE parents[n]]]

Trees ==
  {TreeOf(parents, files, titled) :
     parents \in {p \in [1..MaxNodes -> 0..(MaxNodes - 1)] : \A n \in 1..MaxNodes : p[n] < n},
     files \in [1..MaxNodes -> TagFiles],
     titled \in [1..MaxNodes -> BOOLEAN]}

\* fileMap[file].push(title), the entry created when it is missing
Push(fileMap, file, title) ==
  IF file \in DOMAIN fileMap
  THEN [fileMap EXCEPT ![file] = Append(@, title)]
  ELSE fileMap @@ (file :> <<title>>)

\* walkSuites(suite, parentFile), with the file map it has filled so far
RECURSIVE walkSuites(_, _, _, _)
RECURSIVE walkSuitesEach(_, _, _, _)
walkSuites(tree, n, parentFile, fileMap) ==
  LET file == IF tree[n].file # NoFile THEN tree[n].file ELSE parentFile
      own  == IF file # NoFile /\ tree[n].title # <<>>
              THEN Push(fileMap, file, fullTitleIn(tree, n))
              ELSE fileMap
  IN  walkSuitesEach(tree, tree[n].suites, file, own)

walkSuitesEach(tree, children, file, fileMap) ==
  IF children = <<>> THEN fileMap
  ELSE walkSuitesEach(tree, Tail(children), file,
                      walkSuites(tree, Head(children), file, fileMap))

\* (variant: only a suite's own file tag counts)
buildFileMap_OwnTagOnly(tree) ==
  LET tagged == {n \in 1..MaxNodes : tree[n].file # NoFile /\ tree[n].title # <<>>}
  IN  [f \in {tree[n].file : n \in tagged} |->
         LET ns == Ascending({n \in tagged : tree[n].file = f})
         IN  [i \in 1..Len(ns) |-> fullTitleIn(tree, ns[i])]]

\* buildFileMap(): the walk from the root with an empty map
buildFileMap(tree) == walkSuites(tree, 0, NoFile, <<>>)

\* the /test/files handler: it answers with the file map and changes nothing
Files(tree) ==
  /\ probe.state = "none"
  /\ probe' = [state |-> "mapped", tree |-> tree, result |-> buildFileMap(tree)]
  /\ UNCHANGED <<daemonTestsRunning, clientDisconnected, shuttingDown,
                 activeConnections, env, consoleLog, consoleError, stdoutWrite,
                 stderrWrite, mocha, conns, runs, nreq, wseq, beats, last, proc>>

\* ------------------------------------------------- findSuitesForFile
\* file patterns tried against the registries
FilePatterns ==
  { <<>>, <<"a">>, <<"b">>, <<"x">>, <<"x", "/", "b">>, <<"/", "x", "/", "b">>,
    <<"x", "/">>, <<"\\", "x", "\\", "a">>, <<"z", "/", "a">>, <<"/", "a">> }

\* findSuites(mochaInstance.suite, undefined) for a registry and a pattern
FindSuites(tree, filePattern) ==
  /\ probe.state = "none"
  /\ probe' = [state |-> "found", tree |-> tree, pattern |-> filePattern,
               result |-> findSuitesIn(tree, 0, NoFile, normalizePath(filePattern))]
  /\ UNCHANGED <<daemonTestsRunning, clientDisconnected, shuttingDown,
                 activeConnections, env, consoleLog, consoleError, stdoutWrite,
                 stderrWrite, mocha, conns, runs, nreq, wseq, beats, last, proc>>

\* titles tried with escapeRegex: every string of up to MaxTitleLen
\* characters that are a metacharacter, a letter or a space
Titles == UNION {[1..k -> RegexMeta \cup {"a", " "}] : k \in 0..MaxTitleLen}

Escape(str) ==
  /\ probe.state = "none"
  /\ probe' = [state |-> "escaped", str |-> str, result |-> escapeRegex(str)]
  /\ UNCHANGED <<daemonTestsRunning, clientDisconnected, shuttingDown,
                 activeConnections, env, consoleLog, consoleError, stdoutWrite,
                 stderrWrite, mocha, conns, runs, nreq, wseq, beats, last, proc>>

\* ------------------------------------------------- the runner's grep
\* mochaInstance.grep(string) compiles the string with new RegExp and the
\* runner keeps a test when the expression finds a match in its full title.
\* The syntax tree of an expression: nodes [k, c, rs] with k one of "lit"
\* (the character c), "any" (.), "bol" (^), "star" (rs[1] repeated), "look"
\* (lookahead on rs[1]), "cat" (rs in a row) and "alt" (one of rs).
Node(k, c, rs) == [k |-> k, c |-> c, rs |-> rs]

RECURSIVE ParseAlt(_, _)
RECURSIVE ParseAltRest(_, _, _)
RECURSIVE ParseCatRest(_, _, _)
RECURSIVE ParseAtom(_, _)
\* Disjunction: alternatives separated by '|'
ParseAlt(src, p) ==
  LET first == ParseCatRest(src, p, <<>>)
  IN  ParseAltRest(src, first.pos, <<first.node>>)

ParseAltRest(src, p, acc) ==
  IF p <= Len(src) /\ src[p] = "|"
  THEN LET nxt == ParseCatRest(src, p + 1, <<>>)
       IN  ParseAltRest(src, nxt.pos, Append(acc, nxt.node))
  ELSE [node |-> Node("alt", "", acc), pos |-> p]

\* Alternative: terms up to the next '|' or ')' or the end
ParseCatRest(src, p, acc) ==
  IF p > Len(src) \/ src[p] \in {"|", ")"}
  THEN [node |-> Node("cat", "", acc), pos |-> p]
  ELSE LET a == ParseAtom(src, p)
       IN  ParseCatRest(src, a.pos, Append(acc, a.node))

\* Term: an atom, an assertion or a group, with a '*' after it or not
ParseAtom(src, p) ==
  LET base ==
        CASE src[p] = "(" /\ p + 2 <= Len(src) /\ src[p + 1] = "?" /\ src[p + 2] = "=" ->
               LET in == ParseAlt(src, p + 3)
               IN  [node |-> Node("look", "", <<in.node>>), pos |-> in.pos + 1]
          [] src[p] = "(" /\ ~(p + 2 <= Len(src) /\ src[p + 1] = "?" /\ src[p + 2] = "=") ->
               LET in == ParseAlt(src, p + 1)
               IN  [node |-> in.node, pos |-> in.pos + 1]
          [] src[p] = "\\" -> [node |-> Node("lit", src[p + 1], <<>>), pos |-> p + 2]
          [] src[p] = "."  -> [node |-> Node("any", "", <<>>), pos |-> p + 1]
          [] src[p] = "^"  -> [node |-> Node("bol", "", <<>>), pos |-> p + 1]
          [] OTHER         -> [node |-> Node("lit", src[p], <<>>), pos |-> p + 1]
  IN  IF base.pos <= Len(src) /\ src[base.pos] = "*"
      THEN [node |-> Node("star", "", <<base.node>>), pos |-> base.pos + 1]
      ELSE base

\* the positions of str where a match of the node that starts at i can end
RECURSIVE Ends(_, _, _)
RECURSIVE CatEnds(_, _, _)
RECURSIVE StarEnds(_, _, _)
Ends(node, str, i) ==
  CASE node.k = "lit"  -> IF i <= Len(str) /\ str[i] = node.c THEN {i + 1} ELSE {}
    [] node.k = "any"  -> IF i <= Len(str) THEN {i + 1} ELSE {}
    [] node.k = "bol"  -> IF i = 1 THEN {i} ELSE {}
    [] node.k = "look" -> IF Ends(node.rs[1], str, i) # {} THEN {i} ELSE {}
    [] node.k = "star" -> StarEnds(node.rs[1], str, {i})
    [] node.k = "cat"  -> CatEnds(node.rs, str, {i})
    [] node.k = "alt"  -> UNION {Ends(node.rs[a], str, i) : a \in 1..Len(node.rs)}

CatEnds(rs, str, from) ==
  IF rs = <<>> THEN from
  ELSE CatEnds(Tail(rs), str, UNION {Ends(Head(rs), str, j) : j \in from})

StarEnds(node, str, from) ==
  LET more == from \cup UNION {Ends(node, str, j) : j \in from}
  IN  IF more = from THEN from ELSE StarEnds(node, str, more)

\* new RegExp(source).test(str): a match starts somewhere in str
RegExpTest(source, str) ==
  \E i \in 1..(Len(str) + 1) : Ends(ParseAlt(source, 1).node, str, i) # {}

\* queries with a file and a name pattern, and full titles of tests the
\* runner tries the filter on
NamePatterns ==
  { <<"a">>, <<"b">>, <<"C">>, <<"a", "|", "b">>, <<"b", "|", "a">>, <<"a", "|", "C">> }

Candidates ==
  { <<"B", ".", " ", "b">>, <<"B", ".", " ", "a">>, <<"B", ".", " ", "a", "b">>,
    <<"B", ".", " ", "C">>, <<"B", ".", " ", "C", " ", "b">>, <<"b", " ", "B", ".">>,
    <<"B", "x", " ", "b">>, <<"A", " ", "b">>, <<"A", " ", "a">>, <<"A">> }

\* the runner decides on one test: grep.test(test.fullTitle()) with the
\* expression /test/run built for the query
Select(filePattern, grepPattern, candidate) ==
  /\ probe.state = "none"
  /\ Len(findSuitesForFile(filePattern)) # 0
  /\ probe' = [state |-> "selected", file |-> filePattern, grep |-> grepPattern,
               candidate |-> candidate,
               result |-> RegExpTest(effectiveGrep([file |-> filePattern, grep |-> grepPattern]),
                                     candidate)]
  /\ UNCHANGED <<daemonTestsRunning, clientDisconnected, shuttingDown,
                 activeConnections, env, consoleLog, consoleError, stdoutWrite,
                 stderrWrite, mocha, conns, runs, nreq, wseq, beats, last, proc>>

MatchNext ==
  \/ \E file \in Strings(MaxPathLen) \cup SampleFiles,
        pattern \in Strings(MaxPatternLen) \cup SamplePatterns : Probe(file, pattern)
  \/ Match
  \/ \E tree \in Trees : Files(tree)
  \/ \E tree \in Trees, filePattern \in FilePatterns : FindSuites(tree, filePattern)
  \/ \E str \in Titles : Escape(str)
  \/ \E filePattern \in FilePatterns \ {<<>>}, grepPattern \in NamePatterns, candidate \in Candidates :
       Select(filePattern, grepPattern, candidate)

\* the matcher is called in a daemon that has not served a request
MatchInit == Init /\ env = "unset"

MatchSpec == MatchInit /\ [][MatchNext]_vars

\* ------------------------------------------------- without TEST_DAEMON
\* a text: its kind, a number and the newlines at its end
Text(kind, n) == [kind |-> kind, n |-> n, nl |-> 0]

\* what one call of console.log got: console.log(what), or
\* console.log(what, index, array)
Plain(what) == [what |-> what, index |-> -1, array |-> <<>>]

consoleLogged(p, entry) == [p EXCEPT !.console = Append(@, entry)]

clientLogBuffer(p, line) ==
  LET q == [p EXCEPT !.arrived = Append(@, line)]
  IN  IF q.serverTestsDone
      THEN consoleLogged(q, Plain(line))
      ELSE [q EXCEPT !.clientLines = Append(@, line)]

\* printHeader(type): three lines, to the buffer for 'CLIENT'
RECURSIVE printHeaderFrom(_, _, _)
printHeaderFrom(p, type, i) ==
  IF i > 3 THEN p
  ELSE printHeaderFrom(IF type = "CLIENT"
                       THEN clientLogBuffer(p, Text("client header", i))
                       ELSE consoleLogged(p, Plain(Text("server header", i))),
                       type, i + 1)

printHeaders(p, type) == printHeaderFrom(p, type, 1)

\* clientLines.forEach(console.log): forEach hands the element, its index
\* and the array to console.log
flushClientLines(clientLines) ==
  [i \in 1..Len(clientLines) |->
     [what |-> clientLines[i], index |-> i - 1, array |-> clientLines]]

\* the six lines of the final summary
summary == [i \in 1..6 |-> Plain(Text("summary", i))]

exitIfDone(p, type, failures) ==
  LET a == [p EXCEPT !.callCount = @ + 1]
      b == IF type = "client"
           THEN [a EXCEPT !.clientFailures = failures, !.clientReported = TRUE]
           ELSE [a EXCEPT !.serverFailures = failures,
                          !.serverTestsDone = TRUE,
                          !.console = @ \o flushClientLines(a.clientLines)]
  IN  IF b.callCount = 2
      THEN [b EXCEPT !.console =
                        IF /\ b.runnerOptions.runServer
                           /\ b.runnerOptions.runClient
                           /\ b.runnerOptions.browserDriver
                        THEN @ \o summary ELSE @,
                     !.coverage = "pending"]
      ELSE b

\* the count a runner or the browser driver handed over, 1 when it is no number
Reported(failureCount) == IF failureCount.isNum THEN failureCount.n ELSE 1

clientTests(p) ==
  IF p.clientTestsRunning
  THEN consoleLogged(p, Plain(Text("client tests already running", 0)))
  ELSE IF ~p.runnerOptions.runClient
  THEN exitIfDone(consoleLogged(p, Plain(Text("skipping client tests", 0))), "client", 0)
  ELSE IF ~p.runnerOptions.browserDriver
  THEN exitIfDone(consoleLogged(p, Plain(Text("load the app in a browser", 0))), "client", 0)
  ELSE [printHeaders(p, "CLIENT") EXCEPT !.clientTestsRunning = TRUE,
                                         !.browsers = @ + 1]

serverTests(p, cb) ==
  IF ~p.runnerOptions.runServer
  THEN LET a == exitIfDone(consoleLogged(p, Plain(Text("skipping server tests", 0))),
                           "server", 0)
       IN  IF cb THEN clientTests(a) ELSE a
  ELSE [printHeaders(p, "SERVER") EXCEPT !.serverRunning = TRUE, !.cb = cb]

\* the options start() reads
RunnerOptions ==
  [runServer : BOOLEAN, runClient : BOOLEAN, browserDriver : BOOLEAN,
   testWatch : BOOLEAN, runParallel : BOOLEAN]

ClientOutputs ==
  { [clientOutput |-> FALSE, clientReporter |-> "spec"],
    [clientOutput |-> TRUE, clientReporter |-> "spec"],
    [clientOutput |-> TRUE, clientReporter |-> "xunit"] }

\* start() without TEST_DAEMON
start(runnerOptions, out) ==
  /\ proc.state = "none"
  /\ LET p == [proc EXCEPT !.state = "started", !.runnerOptions = runnerOptions,
                           !.clientOutput = out.clientOutput,
                           !.clientReporter = out.clientReporter]
     IN  proc' = IF runnerOptions.runParallel
                 THEN clientTests(serverTests(
                        consoleLogged(p, Plain(Text("running in parallel", 0))), FALSE))
                 ELSE serverTests(p, TRUE)
  /\ UNCHANGED <<daemonTestsRunning, clientDisconnected, shuttingDown,
                 activeConnections, env, consoleLog, consoleError, stdoutWrite,
                 stderrWrite, mocha, conns, runs, nreq, wseq, beats, last, probe>>

Alive == proc.state = "started" /\ proc.exit = -1

\* the server reporter prints a line
ServerOutput ==
  /\ Alive
  /\ proc.serverRunning
  /\ proc.serverLines < MaxServerLines
  /\ proc' = [consoleLogged(proc, Plain(Text("server output", proc.serverLines + 1)))
                EXCEPT !.serverLines = @ + 1]
  /\ UNCHANGED <<daemonTestsRunning, clientDisconnected, shuttingDown,
                 activeConnections, env, consoleLog, consoleError, stdoutWrite,
                 stderrWrite, mocha, conns, runs, nreq, wseq, beats, last, probe>>

\* the callback serverTests gave to mochaInstance.run
ServerRunnerComplete(failureCount) ==
  /\ Alive
  /\ proc.serverRunning
  /\ LET a == [proc EXCEPT !.serverRunning = FALSE]
         b == IF failureCount.isNum THEN a
              ELSE consoleLogged(a, Plain(Text("no failure count for server tests", 0)))
         c == exitIfDone(b, "server", Reported(failureCount))
     IN  proc' = IF proc.cb THEN clientTests(c) ELSE c
  /\ UNCHANGED <<daemonTestsRunning, clientDisconnected, shuttingDown,
                 activeConnections, env, consoleLog, consoleError, stdoutWrite,
                 stderrWrite, mocha, conns, runs, nreq, wseq, beats, last, probe>>

\* what the browser driver hands to stdout, writebuffer and stderr: a line
\* with its newline, and a line of XML without
BrowserData == { [kind |-> "client output", nl |-> 1], [kind |-> "<xml", nl |-> 0] }

isXunitLine(line) == line.kind = "<xml"

browserOutput(p, data) ==
  LET line == [data EXCEPT !.nl = IF @ > 0 THEN @ - 1 ELSE @]
  IN  IF p.clientOutput
      THEN IF p.clientReporter # "xunit" \/ isXunitLine(line)
           THEN [p EXCEPT !.file = Append(@, [line EXCEPT !.nl = @ + 1])]
           ELSE clientLogBuffer(p, line)
      ELSE clientLogBuffer(p, line)

BrowserOutput(data) ==
  /\ Alive
  /\ proc.browsers > 0
  /\ proc.lines < MaxLines
  /\ proc' = [browserOutput(proc, [kind |-> data.kind, n |-> proc.lines + 1, nl |-> data.nl])
                EXCEPT !.lines = @ + 1]
  /\ UNCHANGED <<daemonTestsRunning, clientDisconnected, shuttingDown,
                 activeConnections, env, consoleLog, consoleError, stdoutWrite,
                 stderrWrite, mocha, conns, runs, nreq, wseq, beats, last, probe>>

\* done(failureCount) of a browser run
BrowserDone(failureCount) ==
  /\ Alive
  /\ proc.browsers > 0
  /\ LET a == [proc EXCEPT !.clientTestsRunning = FALSE, !.browsers = @ - 1]
         b == IF failureCount.isNum THEN a
              ELSE consoleLogged(a, Plain(Text("no failure count from the browser driver", 0)))
     IN  proc' = exitIfDone(b, "client", Reported(failureCount))
  /\ UNCHANGED <<daemonTestsRunning, clientDisconnected, shuttingDown,
                 activeConnections, env, consoleLog, consoleError, stdoutWrite,
                 stderrWrite, mocha, conns, runs, nreq, wseq, beats, last, probe>>

\* onMessage('client-refresh') and onMessage('webapp-reload-client')
Messages == {"client-refresh", "webapp-reload-client"}

onMessage(message) ==
  /\ Alive
  /\ proc.msgs < MaxMessages
  /\ proc' = clientTests([consoleLogged(proc, Plain(Text("client tests restarting", 0)))
                            EXCEPT !.msgs = @ + 1])
  /\ UNCHANGED <<daemonTestsRunning, clientDisconnected, shuttingDown,
                 activeConnections, env, consoleLog, consoleError, stdoutWrite,
                 stderrWrite, mocha, conns, runs, nreq, wseq, beats, last, probe>>

\* handleCoverage(coverageOptions).then(...): the promise is fulfilled
CoverageSettles ==
  /\ Alive
  /\ proc.coverage = "pending"
  /\ proc' = [proc EXCEPT
                !.coverage = "settled",
                !.exit = IF proc.runnerOptions.testWatch THEN -1
                         ELSE IF proc.clientFailures + proc.serverFailures > 0 THEN 1
                         ELSE 0]
  /\ UNCHANGED <<daemonTestsRunning, clientDisconnected, shuttingDown,
                 activeConnections, env, consoleLog, consoleError, stdoutWrite,
                 stderrWrite, mocha, conns, runs, nreq, wseq, beats, last, probe>>

OneShotNext ==
  \/ \E runnerOptions \in RunnerOptions, out \in ClientOutputs : start(runnerOptions, out)
  \/ ServerOutput
  \/ \E failureCount \in Results : ServerRunnerComplete(failureCount)
  \/ \E data \in BrowserData : BrowserOutput(data)
  \/ \E failureCount \in Results : BrowserDone(failureCount)
  \/ \E message \in Messages : onMessage(message)
  \/ CoverageSettles

OneShotInit == Init /\ env = "unset"

OneShotSpec == OneShotInit /\ [][OneShotNext]_vars

\* ------------------------------------------------- the status endpoints
\* (variant: the status never tells of a shutdown)
healthReply_AlwaysReady ==
  [status  |-> "ready",
   suites  |-> Len(Suites[0].suites),
   running |-> daemonTestsRunning]

\* the body /test/health answers with
healthReply ==
  [status  |-> IF shuttingDown THEN "shutting_down" ELSE "ready",
   suites  |-> Len(Suites[0].suites),
   running |-> daemonTestsRunning]

\* GET /test/health: the reply leaves the process, nothing else happens
HealthEndpoint ==
  /\ last' = [id |-> 0, conn |-> NoConn, run |-> NoRun, endpoint |-> "health",
              body |-> healthReply]
  /\ UNCHANGED <<daemonTestsRunning, clientDisconnected, shuttingDown,
                 activeConnections, env, consoleLog, consoleError, stdoutWrite,
                 stderrWrite, mocha, conns, runs, nreq, wseq, beats, probe, proc>>

\* GET /test/files: the file map of the daemon's registry
FilesEndpoint ==
  /\ last' = [id |-> 0, conn |-> NoConn, run |-> NoRun, endpoint |-> "files",
              body |-> buildFileMap(Suites)]
  /\ UNCHANGED <<daemonTestsRunning, clientDisconnected, shuttingDown,
                 activeConnections, env, consoleLog, consoleError, stdoutWrite,
                 stderrWrite, mocha, conns, runs, nreq, wseq, beats, probe, proc>>

\* the daemon with its three endpoints
StatusNext ==
  \/ Next
  \/ HealthEndpoint
  \/ FilesEndpoint

StatusSpec == Init /\ [][StatusNext]_vars

\* ---------------------------------------------------------------- claims
SomeInProgress == \E d \in Conns : InProgress(d)

\* a /test/run request is handled by the step
Arrives == nreq' = nreq + 1

\* the step let go of a response the handler did not accept
LastRejected == last.id # 0 /\ last.run.phase = "none"

\* the step is the return of a run's completion callback
LastFinal == last.id # 0 /\ last.run.phase = "final"

LastEvent(cn) == cn.events[Len(cn.events)]

StartEvent == Ev("start", 0, "")

C3_ShutdownLatch ==
  [][shuttingDown =>
       /\ shuttingDown'
       /\ (~daemonTestsRunning => ~daemonTestsRunning')
       /\ mocha'.runs = mocha.runs]_vars

C3_Witness ==
  /\ LastRejected
  /\ last.conn.sawShutdown
  /\ ~last.conn.sawRunning
  /\ last.conn.query.file = <<>>
  /\ last.conn.events = <<StartEvent, Ev("shutdown", 0, "shutting down")>>

\* the file pattern of Requests that names no suite's file (x/a and x/b)
NoSuiteFile == <<"z", "/", "a">>

\* the query of the request the step handles
ArrivedQuery ==
  IF last'.id = nreq' THEN last'.conn.query ELSE conns'[nreq'].query

\* the daemon's state apart from the responses and closures
RunState ==
  <<daemonTestsRunning, clientDisconnected, shuttingDown, activeConnections, env,
    consoleLog, consoleError, stdoutWrite, stderrWrite, mocha>>

\* the responses and closures of the requests before the arriving one
OthersUnchanged ==
  \A d \in Conns : d # nreq' => (conns'[d] = conns[d] /\ runs'[d] = runs[d])

\* C2: a /test/run request that arrives while a run is in progress gets
\* 'start', then the 'already running' error, and its response is ended at
\* once; it changes nothing of the run state nor of the run in progress,
\* which, unless its peer is flagged as gone or a signal ended its
\* response, still ends with 'done' carrying the runner's failure count.
C2_RejectedWhileRunning ==
  /\ []((LastRejected /\ last.conn.sawRunning) =>
          /\ last.conn.events = <<StartEvent, Ev("error", 0, "already running")>>
          /\ last.conn.ended)
  /\ [][(Arrives /\ SomeInProgress) => (UNCHANGED RunState /\ OthersUnchanged)]_vars
  /\ []((LastFinal /\ ~last.run.flagAtEnd /\ ~last.run.shutDuring) =>
          /\ LastEvent(last.conn) = DoneEvent(last.run.failureCount)
          /\ last.conn.ended)

\* C4: a /test/run request that reaches the entry guard after a termination
\* signal was handled gets 'start', then 'shutdown', and its response is
\* ended, whether or not a run is still in progress.
C4_ShutdownBeforeRunning ==
  (LastRejected /\ last.conn.sawShutdown /\ last.conn.query.file # NoSuiteFile) =>
    /\ last.conn.events = <<StartEvent, Ev("shutdown", 0, "shutting down")>>
    /\ last.conn.ended

\* C5: a /test/run request whose file pattern matches no suite gets exactly
\* the 'no tests found' error and 'done' with failures = 1, its response is
\* ended, and the step changes neither the run state (flags, connection
\* registry, environment toggle, output functions, runner and registry) nor
\* any other response or closure.
C5_NoTestsFound ==
  /\ []((LastRejected /\ last.conn.query.file = NoSuiteFile) =>
          /\ last.conn.events =
               <<Ev("error", 0, "no tests found"), Ev("done", 1, "number")>>
          /\ last.conn.ended)
  /\ [][(Arrives /\ ArrivedQuery.file = NoSuiteFile) =>
          /\ last'.id = nreq'
          /\ UNCHANGED RunState
          /\ OthersUnchanged]_vars

C5_Witness ==
  /\ LastRejected
  /\ last.conn.query.file = NoSuiteFile
  /\ last.conn.sawRunning
  /\ last.conn.outcome = "nofile"

\* C6: when the callback of a run returns, 'done' with the runner's failure
\* count has been written to the run's response and the response is ended,
\* unless the run's own peer disconnected during the run (or a signal ended
\* the response).
C6_DoneUnlessOwnPeerGone ==
  (LastFinal /\ ~last.run.ownClosed /\ ~last.run.shutDuring) =>
    /\ LastEvent(last.conn) = DoneEvent(last.run.failureCount)
    /\ last.conn.ended

\* the place of a write among the writes of the process: the header lines
\* of a run, the numbered writes, the log of a failed cleanup
Rank(ev) ==
  CASE ev.tag = "header 1" -> 1
    [] ev.tag = "header 2" -> 2
    [] ev.tag = "header 3" -> 3
    [] ev.tag = "out" -> 3 + ev.n
    [] ev.tag = "failed to reset collections" -> 4 + MaxWrites
    [] OTHER -> 0

EventsInOrder(cn) ==
  LET e == cn.events
  IN  /\ Len(e) >= 1
      /\ e[1] = StartEvent
      /\ \A i \in 2..Len(e) : e[i].type # "start"
      /\ \A i \in 1..Len(e) : e[i].type = "done" => (i = Len(e) /\ cn.ended)
      /\ \A i, j \in 1..Len(e) :
           (i < j /\ Rank(e[i]) > 0 /\ Rank(e[j]) > 0) => Rank(e[i]) < Rank(e[j])

\* C7: on the response of an accepted run 'start' is the first event, the
\* output events appear in the order of the writes, 'done' is the last
\* event, and once the callback has returned no write is made to the
\* response any more.
C7_EventOrder ==
  /\ \A c \in Conns : InProgress(c) => EventsInOrder(conns[c])
  /\ LastFinal => EventsInOrder(last.conn)
  /\ \A c \in Conns :
       runs[c].phase = "over" => (conns[c].events = <<>> /\ ~conns[c].endWrite)

C7_Witness ==
  /\ LastFinal
  /\ LastEvent(last.conn).type = "done"
  /\ \E i, j, k \in 1..Len(last.conn.events) :
       /\ last.conn.events[i].tag = "header 3"
       /\ last.conn.events[j].tag = "out"
       /\ last.conn.events[k].type = "heartbeat"

C7_WitnessJson ==
  /\ LastFinal
  /\ LastEvent(last.conn).type = "done"
  /\ \E i \in 1..Len(last.conn.events) : last.conn.events[i].type = "json"

\* C8: a run whose runner handed something that is no number to the
\* callback ends with 'done' carrying failures = 1.
C8_NonNumberIsOneFailure ==
  (LastFinal /\ ~last.run.failureCount.isNum /\ ~last.run.flagAtEnd
     /\ ~last.run.shutDuring) =>
    LastEvent(last.conn) = Ev("done", 1, "number")

\* C9: when the storage cleanup of a run rejected, the callback still
\* restores the four output functions and the environment toggle and clears
\* the running flag, and (unless the peer is flagged as gone or a signal
\* ended the response) the failure is written as one 'error' event and the
\* response ends with 'done' carrying the runner's failure count.
C9_CleanupFailureIsolated ==
  (LastFinal /\ last.run.cleanupFailed) =>
    /\ ~daemonTestsRunning
    /\ env = last.run.previousSnapshotUpdate
    /\ stdoutWrite = last.run.originalStdoutWrite
    /\ stderrWrite = last.run.originalStderrWrite
    /\ consoleLog = last.run.originalLog
    /\ consoleError = last.run.originalError
    /\ (~last.run.flagAtEnd /\ ~last.run.shutDuring) =>
         /\ LastEvent(last.conn) = DoneEvent(last.run.failureCount)
         /\ last.conn.ended
         /\ \E i \in 1..Len(last.conn.events) :
              last.conn.events[i] = Ev("error", 0, "failed to reset collections")

C9_Witness ==
  /\ LastFinal
  /\ last.run.cleanupFailed
  /\ last.conn.query.snapshotUpdate
  /\ last.run.previousSnapshotUpdate = "0"
  /\ last.run.failureCount = [isNum |-> TRUE, n |-> 2]
  /\ LastEvent(last.conn) = Ev("done", 2, "number")

SignalEvents(cn) ==
  {i \in 1..Len(cn.events) :
     cn.events[i].type = "shutdown" /\ cn.events[i].tag \in Signals}

C12_RegistryMembership ==
  activeConnections =
    {c \in Conns : InProgress(c) /\ ~conns[c].ended /\ ~conns[c].closed}

\* C13: SNAPSHOT_UPDATE changes only when a run is accepted, where its
\* value is saved and it becomes '1' if the request asks for snapshot
\* updates, and when the completion callback of the run ends, where it gets
\* the saved value back (unset when it was unset); while the daemon is
\* idle it keeps its value, which is one it had before the daemon's runs.
C13_SnapshotToggleRestored ==
  /\ [][(~daemonTestsRunning /\ daemonTestsRunning') =>
          /\ runs'[nreq'].previousSnapshotUpdate = env
          /\ env' = IF conns'[nreq'].query.snapshotUpdate THEN "1" ELSE env]_vars
  /\ [][(daemonTestsRunning /\ daemonTestsRunning') => env' = env]_vars
  /\ [][(daemonTestsRunning /\ ~daemonTestsRunning') =>
          /\ last'.run.phase = "final"
          /\ last'.run.previousSnapshotUpdate = runs[last'.id].previousSnapshotUpdate
          /\ env' = last'.run.previousSnapshotUpdate]_vars
  /\ [][(~daemonTestsRunning /\ ~daemonTestsRunning') => env' = env]_vars
  /\ [](~daemonTestsRunning => env \in EnvValues)
  /\ [](\A c \in Conns :
          (InProgress(c) /\ conns[c].query.snapshotUpdate) => env = "1")

C13_Witness ==
  /\ LastFinal
  /\ last.conn.query.snapshotUpdate
  /\ last.run.previousSnapshotUpdate = "0"
  /\ env = "0"

\* a run one of whose steps threw before the runner delivered a result
Failed(c) == runs[c].phase = "failed"

\* C14: when a step of an accepted run threw before the runner delivered a
\* result, the daemon is not running, SNAPSHOT_UPDATE has the value saved at
\* acceptance, no output function holds an interceptor and no heartbeat
\* timer is left.
C14_RestoredOnEveryExit ==
  \A c \in Conns :
    Failed(c) =>
      /\ ~daemonTestsRunning
      /\ env = runs[c].previousSnapshotUpdate
      /\ ~runs[c].heartbeat
      /\ ~Intercepted(stdoutWrite) /\ ~Intercepted(stderrWrite)
      /\ ~Intercepted(consoleLog) /\ ~Intercepted(consoleError)

\* C15: whenever the daemon is not running a test, the four output
\* functions are the functions of the process before its first run, with
\* no layer over them.
C15_ExactFunctionsRestored ==
  ~daemonTestsRunning =>
    /\ consoleLog = <<>>
    /\ consoleError = <<>>
    /\ stdoutWrite = <<>>
    /\ stderrWrite = <<>>

\* the newlines at the end of what a call of the output function of the
\* stream writes: console.log and console.error add one to their argument
WrittenNewlines(stream) ==
  TrailingNewlines(stream) + (IF stream \in {"log", "error"} THEN 1 ELSE 0)

\* the event of the write the step makes to the stream, as its run relays it
RelayedEvent(stream) ==
  [type |-> IF stream \in {"stdout", "log"} THEN "log" ELSE "error",
   n    |-> wseq + 1,
   tag  |-> "out",
   nl   |-> IF WrittenNewlines(stream) > 0 THEN WrittenNewlines(stream) - 1 ELSE 0]

EventsOfType(cn, type) == {i \in 1..Len(cn.events) : cn.events[i].type = type}

\* C17: a run with the JSON reporter never has a 'log' event on its
\* response; while it is in progress a write to process.stdout or a
\* console.log call adds no event and is appended to the run's buffer, and
\* a write to process.stderr or a console.error call still adds one 'error'
\* event; when its callback returns, the response holds at most one 'json'
\* event, none if the buffer is empty or the run's peer disconnected during
\* the run, and a response that got 'done' got, for a buffer that is not
\* empty, the 'json' event with the buffer right before it.
C17_JsonBuffered ==
  /\ [](\A c \in Conns : runs[c].useJsonReporter => EventsOfType(conns[c], "log") = {})
  /\ []((LastFinal /\ last.run.useJsonReporter) => EventsOfType(last.conn, "log") = {})
  /\ [][\A stream \in Streams : \A c \in Conns :
          (Output(stream) /\ InProgress(c) /\ runs[c].useJsonReporter) =>
            IF stream \in {"stdout", "log"}
            THEN /\ conns'[c].events = conns[c].events
                 /\ runs'[c].jsonBuffer = Append(runs[c].jsonBuffer, wseq + 1)
            ELSE /\ runs'[c].jsonBuffer = runs[c].jsonBuffer
                 /\ ~conns[c].ended =>
                      conns'[c].events = Append(conns[c].events, RelayedEvent(stream))]_vars
  /\ []((LastFinal /\ last.run.useJsonReporter) =>
          LET e == last.conn.events
              json == EventsOfType(last.conn, "json")
          IN  /\ Cardinality(json) <= 1
              /\ (last.run.ownClosed \/ last.run.jsonBuffer = <<>>) => json = {}
              /\ \A i \in json :
                   /\ i = Len(e) - 1
                   /\ e[i] = Ev("json", Len(last.run.jsonBuffer), "buffer")
                   /\ e[Len(e)].type = "done"
              /\ (LastEvent(last.conn).type = "done" /\ last.run.jsonBuffer # <<>>) =>
                   json # {})

C17_Witness ==
  /\ LastFinal
  /\ last.run.useJsonReporter
  /\ last.run.jsonBuffer = <<1>>
  /\ Len(last.conn.events) = 4
  /\ last.conn.events[2] = Ev("error", 0, "failed to reset collections")
  /\ last.conn.events[3] = Ev("json", 1, "buffer")

\* C18: no event is written to the response of a run in progress after the
\* response's 'close' event.
C18_NoWriteAfterClose ==
  \A c \in Conns : InProgress(c) => ~conns[c].lateWrite

\* C19: the heartbeat timer of a run is started when the run is accepted; a
\* timer exists only while the daemon is running and the run's callback has
\* not begun; it goes away only when the callback begins or when a
\* heartbeat write failed, and then the run stays as it is and the daemon
\* running; a 'heartbeat' event is written only by a timer that exists.
C19_HeartbeatWhileRunning ==
  /\ [](\A c \in Conns :
          runs[c].heartbeat =>
            /\ daemonTestsRunning
            /\ runs[c].phase \in {"running", "failed"}
            /\ runs[c].cleanups = 0)
  /\ [][\A c \in Conns :
          (runs[c].phase = "none" /\ runs'[c].phase = "running") =>
            runs'[c].heartbeat]_vars
  /\ [][\A c \in Conns :
          (runs[c].heartbeat /\ ~runs'[c].heartbeat) =>
            \/ runs[c].phase = "running" /\ runs'[c].phase = "cleanup"
            \/ /\ Heartbeat(c, TRUE)
               /\ runs'[c].phase = runs[c].phase
               /\ daemonTestsRunning'
               /\ \A d \in Conns \ {c} : runs'[d] = runs[d]]_vars
  /\ [][\A c \in Conns :
          Cardinality(EventsOfType(conns'[c], "heartbeat"))
            > Cardinality(EventsOfType(conns[c], "heartbeat")) =>
              runs[c].heartbeat /\ daemonTestsRunning]_vars

C19_Witness ==
  \E c \in Conns :
    /\ runs[c].phase = "running"
    /\ ~runs[c].heartbeat
    /\ daemonTestsRunning
    /\ EventsOfType(conns[c], "heartbeat") = {}

\* the slashes a string begins and ends with
LeadingSlashes(s) == Cardinality({i \in 1..Len(s) : \A j \in 1..i : s[j] = "/"})

TrailingSlashes(s) == Cardinality({i \in 1..Len(s) : \A j \in i..Len(s) : s[j] = "/"})

\* a path as the matcher is to see it: leading slashes stripped, then
\* backslashes turned into '/', then trailing slashes stripped
Normalized(s) ==
  LET a == SubSeq(s, LeadingSlashes(s) + 1, Len(s))
      b == [i \in 1..Len(a) |-> IF a[i] = "\\" THEN "/" ELSE a[i]]
  IN  SubSeq(b, 1, Len(b) - TrailingSlashes(b))

\* y occurs in x
Contains(x, y) ==
  \E i \in 0..(Len(x) - Len(y)) : SubSeq(x, i + 1, i + Len(y)) = y

\* the segments of p occur as a run of whole segments of f: with a '/' put
\* before and after each, p occurs in f
WholeSegmentsOccur(f, p) ==
  Contains(<<"/">> \o f \o <<"/">>, <<"/">> \o p \o <<"/">>)

Slashes(s) == Cardinality({i \in 1..Len(s) : s[i] = "/"})

\* C20: the matcher answers true exactly when the segments of the
\* normalized pattern occur as a contiguous run of whole segments of the
\* normalized file path; it answers false when the pattern has more
\* segments than the file; 'abc/def' matches 'x/abc/def/file.ts', 'abc'
\* does not match 'abcd/file.ts' and 'abc/def' does not match
\* 'abc/defg/file.ts'.
C20_WholeSegmentMatch ==
  probe.state = "answered" =>
    LET f == Normalized(probe.file)
        p == Normalized(probe.pattern)
    IN  /\ probe.result = WholeSegmentsOccur(f, p)
        /\ Slashes(p) > Slashes(f) => ~probe.result
        /\ (probe.pattern = <<"a", "b", "c", "/", "d", "e", "f">> /\ probe.file = <<"x", "/", "a", "b", "c", "/", "d", "e", "f", "/", "f", "i", "l", "e", ".", "t", "s">>) => probe.result
        /\ (probe.pattern = <<"a", "b", "c">> /\ probe.file = <<"a", "b", "c", "d", "/", "f", "i", "l", "e", ".", "t", "s">>) => ~probe.result
        /\ (probe.pattern = <<"a", "b", "c", "/", "d", "e", "f">> /\ probe.file = <<"a", "b", "c", "/", "d", "e", "f", "g", "/", "f", "i", "l", "e", ".", "t", "s">>) => ~probe.result

C20_Witness ==
  /\ probe.state = "answered"
  /\ probe.pattern = <<"a", "b", "c", "/", "d", "e", "f">>
  /\ probe.file = <<"x", "/", "a", "b", "c", "/", "d", "e", "f", "/", "f", "i", "l", "e", ".", "t", "s">>
  /\ probe.result

\* the file a suite resolves to, found upwards: its own tag, else that of
\* its nearest tagged ancestor
RECURSIVE ResolvedFile(_, _)
ResolvedFile(tree, n) ==
  IF tree[n].file # NoFile \/ n = 0 THEN tree[n].file
  ELSE ResolvedFile(tree, tree[n].parent)

\* the suites from below the root down to a suite
RECURSIVE PathTo(_, _)
PathTo(tree, n) == IF n = 0 THEN <<>> ELSE Append(PathTo(tree, tree[n].parent), n)

\* a comes before b in the depth-first pre-order walk: a is an ancestor of
\* b, or where their paths part a's side is the earlier sibling
Before(tree, a, b) ==
  LET pa == PathTo(tree, a)
      pb == PathTo(tree, b)
  IN  \/ Len(pa) < Len(pb) /\ SubSeq(pb, 1, Len(pa)) = pa
      \/ \E i \in 1..Len(pa) :
           /\ i <= Len(pb)
           /\ SubSeq(pa, 1, i - 1) = SubSeq(pb, 1, i - 1)
           /\ pa[i] < pb[i]

\* the suites of a registry listed under a file
ListedUnder(tree, f) ==
  {n \in 0..MaxNodes : tree[n].title # <<>> /\ ResolvedFile(tree, n) = f}

\* C21: the file map has exactly the files some titled suite resolves to
\* as keys, and the entry of a file holds the full title of each titled
\* suite that resolves to it, once, in pre-order; for the registry with A in
\* x/a, B. in x/b and the untagged C below B. that is A under x/a and B.,
\* B. C under x/b.
C21_FileMap ==
  probe.state = "mapped" =>
    LET tree == probe.tree
        fm   == probe.result
    IN  /\ DOMAIN fm = {ResolvedFile(tree, n) : n \in {m \in 0..MaxNodes : tree[m].title # <<>>}}
                         \ {NoFile}
        /\ \A f \in DOMAIN fm :
             /\ Len(fm[f]) = Cardinality(ListedUnder(tree, f))
             /\ \A n \in ListedUnder(tree, f) :
                  \E i \in 1..Len(fm[f]) : fm[f][i] = fullTitleIn(tree, n)
             /\ \A a, b \in ListedUnder(tree, f) :
                  \A i, j \in 1..Len(fm[f]) :
                    (/\ fm[f][i] = fullTitleIn(tree, a)
                     /\ fm[f][j] = fullTitleIn(tree, b)
                     /\ Before(tree, a, b)) => i < j
        /\ tree = Suites =>
             fm = (<<"x", "/", "a">> :> <<(<<"A">>)>>)
                  @@ (<<"x", "/", "b">> :> << <<"B", ".">>, <<"B", ".", " ", "C">> >>)

C21_Witness ==
  /\ probe.state = "mapped"
  /\ probe.tree = Suites
  /\ DOMAIN probe.result = {<<"x", "/", "a">>, <<"x", "/", "b">>}

\* r is s with one backslash put before each metacharacter and nothing
\* else changed: character i of s sits in r after the characters before it
\* and one backslash for each metacharacter among them and for itself
IsEscapeOf(r, s) ==
  LET metaUpTo(i) == Cardinality({j \in 1..i : s[j] \in RegexMeta})
  IN  /\ Len(r) = Len(s) + metaUpTo(Len(s))
      /\ \A i \in 1..Len(s) :
           /\ r[i + metaUpTo(i)] = s[i]
           /\ s[i] \in RegexMeta => r[i + metaUpTo(i) - 1] = "\\"

\* un-escaping: a backslash is dropped and the character after it kept
RECURSIVE Unescape(_)
Unescape(r) ==
  IF r = <<>> THEN <<>>
  ELSE IF Head(r) = "\\" /\ Len(r) >= 2
       THEN <<r[2]>> \o Unescape(SubSeq(r, 3, Len(r)))
       ELSE <<Head(r)>> \o Unescape(Tail(r))

\* the titled suites of a registry whose resolved file matches a pattern
\* under the path-matcher contract
MatchingSuites(tree, pattern) ==
  {n \in 0..MaxNodes :
     /\ tree[n].title # <<>>
     /\ ResolvedFile(tree, n) # NoFile
     /\ WholeSegmentsOccur(Normalized(ResolvedFile(tree, n)), Normalized(pattern))}

\* C22: findSuitesForFile returns one entry for each titled suite whose
\* resolved file matches the pattern, the entries are the escaped full
\* titles in pre-order, and escapeRegex puts one backslash before each
\* metacharacter and changes nothing else, so that un-escaping gives the
\* title back.
C22_EscapedTitlesInPreOrder ==
  /\ probe.state = "found" =>
       LET tree == probe.tree
           M    == MatchingSuites(tree, probe.pattern)
           r    == probe.result
       IN  /\ Len(r) = Cardinality(M)
           /\ \A n \in M : \E i \in 1..Len(r) :
                /\ IsEscapeOf(r[i], fullTitleIn(tree, n))
                /\ Unescape(r[i]) = fullTitleIn(tree, n)
           /\ \A a, b \in M : \A i, j \in 1..Len(r) :
                (/\ Unescape(r[i]) = fullTitleIn(tree, a)
                 /\ Unescape(r[j]) = fullTitleIn(tree, b)
                 /\ Before(tree, a, b)) => i < j
  /\ probe.state = "escaped" =>
       /\ IsEscapeOf(probe.result, probe.str)
       /\ Unescape(probe.result) = probe.str

C22_Witness ==
  /\ probe.state = "found"
  /\ probe.tree = Suites
  /\ probe.pattern = <<"/", "x", "/", "b">>
  /\ probe.result = << <<"B", "\\", ".">>, <<"B", "\\", ".", " ", "C">> >>

C22_WitnessEscape ==
  /\ probe.state = "escaped"
  /\ probe.str = <<"\\", ".">>
  /\ probe.result = <<"\\", "\\", "\\", ".">>

\* the alternatives of a name pattern that is an OR of plain words
RECURSIVE AlternativesFrom(_, _, _)
AlternativesFrom(g, cur, acc) ==
  IF g = <<>> THEN acc \cup {cur}
  ELSE IF Head(g) = "|" THEN AlternativesFrom(Tail(g), <<>>, acc \cup {cur})
  ELSE AlternativesFrom(Tail(g), Append(cur, Head(g)), acc)

Alternatives(g) == AlternativesFrom(g, <<>>, {})

StartsWith(x, y) == Len(y) <= Len(x) /\ SubSeq(x, 1, Len(y)) = y

\* C23: with a file filter and a name pattern, the effective filter selects
\* a candidate exactly when the candidate starts with the title of a suite
\* found for the file and the name pattern as a whole matches it; a name
\* pattern 'a|b' matches a candidate that has a 'b' anywhere.
C23_BothConditionsSelect ==
  probe.state = "selected" =>
    (probe.result <=>
       /\ \E n \in MatchingSuites(Suites, probe.file) :
            StartsWith(probe.candidate, fullTitle(n))
       /\ \E w \in Alternatives(probe.grep) : Contains(probe.candidate, w))

\* the step is the answer of a status endpoint
Answers(endpoint) == "endpoint" \in DOMAIN last' /\ last'.endpoint = endpoint

\* a run was accepted and its completion callback has not finalized it
SomeUnfinalized == \E c \in Conns : runs[c].phase \in {"running", "cleanup", "failed"}

\* C24: shuttingDown is set by the handling of a signal and by nothing
\* else and is never cleared, and /test/health reports 'shutting_down'
\* exactly when it is set; it reports running exactly when a run was
\* accepted and is not yet finalized; /test/health and /test/files change
\* neither the run state nor the runner's configuration nor the responses,
\* closures and connection registry, also during a run.
C24_StatusEndpoints ==
  [][/\ ((\E signal \in Signals : shutdown(signal)) => shuttingDown')
     /\ (shuttingDown' # shuttingDown =>
           (shuttingDown' /\ \E signal \in Signals : shutdown(signal)))
     /\ Answers("health") =>
          /\ last'.body.status = (IF shuttingDown THEN "shutting_down" ELSE "ready")
          /\ last'.body.running = SomeUnfinalized
          /\ UNCHANGED <<RunState, conns, runs, nreq, wseq, beats>>
     /\ Answers("files") =>
          UNCHANGED <<RunState, conns, runs, nreq, wseq, beats>>]_vars

C24_Witness ==
  /\ "endpoint" \in DOMAIN last
  /\ last.endpoint = "health"
  /\ last.body.status = "shutting_down"
  /\ last.body.running
  /\ SomeInProgress

C24_WitnessFiles ==
  /\ "endpoint" \in DOMAIN last
  /\ last.endpoint = "files"
  /\ SomeInProgress

C29_RegistryAtMostOne ==
  /\ Cardinality(activeConnections) <= 1
  /\ \A c \in activeConnections :
       /\ runs[c].phase \in {"running", "cleanup", "failed"}
       /\ conns[c].outcome = "accepted"
  /\ activeConnections # {} => daemonTestsRunning
  /\ shuttingDown => activeConnections = {}

C29_Witness ==
  /\ shuttingDown
  /\ activeConnections = {}
  /\ SomeInProgress
  /\ nreq = MaxRequests

C29_WitnessMember ==
  /\ ~shuttingDown
  /\ \E c \in Conns : activeConnections = {c} /\ InProgress(c) /\ c = MaxRequests

\* the response got the 'shutdown' event of a signal
Notified(cn) == SignalEvents(cn) # {}

C30_WitnessRunning ==
  \E c \in Conns :
    /\ InProgress(c)
    /\ Notified(conns[c])
    /\ conns[c].endWrite

\* C26: the process exit is requested only after exitIfDone got the server
\* result and a client result, never with testWatch, and with status 1
\* exactly when the server and client failure counts add up to more than 0.
C26_ExitAfterBothResults ==
  proc.exit # -1 =>
    /\ proc.serverTestsDone
    /\ proc.clientReported
    /\ ~proc.runnerOptions.testWatch
    /\ proc.exit = (IF proc.serverFailures + proc.clientFailures > 0 THEN 1 ELSE 0)

\* C27: with runParallel off a browser run starts only in a state where the
\* server result has been reported, so that the browser and the server
\* runner never run together; and never more than one browser run is in
\* progress.
C27_BrowserAfterServer ==
  /\ [][(proc'.browsers > proc.browsers /\ ~proc'.runnerOptions.runParallel) =>
          proc'.serverTestsDone]_vars
  /\ [](~proc.runnerOptions.runParallel => ~(proc.serverRunning /\ proc.browsers > 0))
  /\ [](proc.browsers <= 1)

\* a console.log call that got a line of the browser, or a line of the
\* server tests
IsClientEntry(entry) == entry.what.kind \in {"client header", "client output", "<xml"}

IsServerEntry(entry) == entry.what.kind \in {"server header", "server output"}

\* C28: without a client output file nothing of the client is on the
\* console before the server result is reported; from then on the console
\* shows the lines handed to clientLogBuffer, each once and alone, in the
\* order they arrived; and no line of the server tests follows a line of
\* the client.
C28_ClientLinesAfterServer ==
  (proc.state = "started" /\ ~proc.clientOutput) =>
    LET printed == SelectSeq(proc.console, IsClientEntry)
    IN  /\ ~proc.serverTestsDone => printed = <<>>
        /\ proc.serverTestsDone =>
             printed = [i \in 1..Len(proc.arrived) |-> Plain(proc.arrived[i])]
        /\ \A i, j \in 1..Len(proc.console) :
             (i < j /\ IsClientEntry(proc.console[i])) => ~IsServerEntry(proc.console[j])

====
